---------------------------- MODULE Spec2Model ----------------------------
(***************************************************************************)
(* A model of poker_game.py: deck construction, dealing, the human's card  *)
(* exchange, hand evaluation and the winner announcement.                  *)
(*                                                                         *)
(* A card text "value suit" is modelled by the token sequence that         *)
(* card.split() yields for it, <<value, suit>>; a text with another number *)
(* of tokens is a sequence of another length.  The exchange prompt's       *)
(* answer is modelled by the token sequence indexes_str.split() yields.    *)
(***************************************************************************)
EXTENDS Integers, Sequences, FiniteSets, TLC

VARIABLES
    pc,          \* position of the caller: which operation comes next
    deck,        \* the deck list (its last element is the top: list.pop())
    hands,       \* the list of hands
    indexes_str, \* the tokens of the exchange prompt's answer
    result,      \* what the last evaluate_hands / exchange_cards call gave
    evaluations, \* announce_winner: the sorted (player, name, strength) list
    announce,    \* announce_winner: the final line printed
    reports,     \* exchange_cards: the notices printed, one per index
    err,         \* the exception the last operation raised, or "none"
    args,        \* the arguments of the last deal_cards call
    deck0,       \* the deck as it was when the last operation was called
    hands0       \* the hands as they were when the last operation was called

vars == <<pc, deck, hands, indexes_str, result, evaluations, announce,
          reports, err, args, deck0, hands0>>

---------------------------------------------------------------------------
(* Bounds of the model *)

\* ranks 2 .. LowValues+1 (and the ace) make up the hands that are evaluated
LowValues == 5
\* announce_winner is called with at most MaxPlayers hands
MaxPlayers == 4
\* the shuffle's permutations: multipliers 1 .. MaxMult, shifts 0 .. MaxShift
MaxMult == 3
MaxShift == 3
\* deal_cards is called with 0 .. MaxDealPlayers players and
\* 0 .. MaxDealCards cards per player
MaxDealPlayers == 11
MaxDealCards == 5
\* the exchange prompt is answered with 0 .. MaxTokens tokens, the numbers
\* among them in 0 .. MaxIndex
MaxTokens == 3
MaxIndex == 6
\* exchange_cards is called with a deck of 0 .. MaxDeck cards
MaxDeck == 4
\* in a round the exchange prompt is answered with 0 .. MaxRoundTokens
\* tokens, or with every position of the hand
MaxRoundTokens == 2

---------------------------------------------------------------------------
(* Generic list helpers (Python list semantics) *)

Range(s) == {s[i] : i \in DOMAIN s}

\* list.pop(i) for a 0-based index i
RemoveAt(s, i) == SubSeq(s, 1, i) \o SubSeq(s, i + 2, Len(s))

\* list.insert(i, x) for a 0-based index i <= len
InsertAt(s, i, x) == SubSeq(s, 1, i) \o <<x>> \o SubSeq(s, i + 1, Len(s))

\* insertion of x into an ascending list, after its equals
RECURSIVE InsertAsc(_, _)
InsertAsc(s, x) ==
    IF s = <<>> THEN <<x>>
    ELSE IF x < Head(s) THEN <<x>> \o s
    ELSE <<Head(s)>> \o InsertAsc(Tail(s), x)

\* list.sort() on integers
RECURSIVE SortAsc(_)
SortAsc(s) ==
    IF s = <<>> THEN <<>>
    ELSE InsertAsc(SortAsc(SubSeq(s, 1, Len(s) - 1)), s[Len(s)])

\* sorted(xs, reverse=True) on integers
Reverse(s) == [i \in 1..Len(s) |-> s[Len(s) + 1 - i]]

SortDesc(s) == Reverse(SortAsc(s))

---------------------------------------------------------------------------
(* create_deck *)

colors == <<"Karo", "Kier", "Pik", "Trefl">>

values == <<"2", "3", "4", "5", "6", "7", "8", "9", "10",
            "Jack", "Queen", "King", "As">>

\* f"{v} {c}", as the tokens it splits into
CardText(v, c) == <<v, c>>

\* [f"{v} {c}" for v in values for c in colors]
create_deck ==
    [i \in 1..(Len(values) * Len(colors)) |->
        CardText(values[((i - 1) \div Len(colors)) + 1],
                 colors[((i - 1) % Len(colors)) + 1])]

---------------------------------------------------------------------------
(* deal_cards *)

RECURSIVE GCD(_, _)
GCD(a, b) == IF b = 0 THEN a ELSE GCD(b, a % b)

\* random.shuffle(deck) leaves any permutation of the list.  The model draws
\* the permutation from the family i -> a*i + b (mod len), a coprime to len
ShuffleSeeds(len) ==
    {<<a, b>> : a \in {x \in 1..MaxMult : GCD(x, len) = 1}, b \in 0..MaxShift}

Shuffle(d, seed) ==
    IF d = <<>> THEN d
    ELSE [i \in 1..Len(d) |-> d[((seed[1] * (i - 1) + seed[2]) % Len(d)) + 1]]

\* (a variant that reads the top card and leaves it on the deck)
PopLast_Keep(s) == s

\* list.pop(): the list without its last element
PopLast(s) == SubSeq(s, 1, Len(s) - 1)

\* the loops of lines 50-52 from their t-th iteration on: player t % n gets
\* deck.pop(), which raises IndexError on an empty list
RECURSIVE DealLoop(_, _, _, _, _)
DealLoop(d, hs, t, n, total) ==
    IF t >= total THEN [err |-> "none", deck |-> d, hands |-> hs]
    ELSE IF d = <<>> THEN [err |-> "IndexError", deck |-> d, hands |-> hs]
    ELSE DealLoop(PopLast(d),
                  [hs EXCEPT ![(t % n) + 1] = Append(@, d[Len(d)])],
                  t + 1, n, total)

\* deal_cards(deck, num_players, cards_per_players) on the shuffled deck:
\* [err, deck, hands]
deal_cards(d, num_players, cards_per_players) ==
    DealLoop(d, [i \in 1..num_players |-> <<>>], 0, num_players,
             num_players * cards_per_players)

---------------------------------------------------------------------------
(* evaluate_hands *)

value_order ==
    ("2" :> 2) @@ ("3" :> 3) @@ ("4" :> 4) @@ ("5" :> 5) @@ ("6" :> 6) @@
    ("7" :> 7) @@ ("8" :> 8) @@ ("9" :> 9) @@ ("10" :> 10) @@
    ("Jack" :> 11) @@ ("Queen" :> 12) @@ ("King" :> 13) @@ ("As" :> 14)

\* the exception the parsing loop raises on a card, or "none":
\* value, color = card.split() needs two tokens; value_order[value] needs a
\* known rank token; the color is appended as it is
CardError(card) ==
    IF Len(card) # 2 THEN "ValueError"
    ELSE IF card[1] \notin DOMAIN value_order THEN "KeyError"
    ELSE "none"

\* the first card of the hand on which the loop raises, 0 if none
FirstBad(hand) ==
    IF \E i \in DOMAIN hand : CardError(hand[i]) # "none"
    THEN CHOOSE i \in DOMAIN hand :
            /\ CardError(hand[i]) # "none"
            /\ \A j \in 1..(i - 1) : CardError(hand[j]) = "none"
    ELSE 0

\* hand_values after the loop and hand_values.sort()
HandValues(hand) == SortAsc([i \in DOMAIN hand |-> value_order[hand[i][1]]])

HandColors(hand) == [i \in DOMAIN hand |-> hand[i][2]]

\* len(set(hand_colors)) == 1
IsFlush(hand) == Cardinality(Range(HandColors(hand))) = 1

\* (a variant that also takes the ace below the 2)
IsStraight_AceLow(hv) ==
    \/ hv = [i \in 1..Len(hv) |-> hv[1] + i - 1]
    \/ hv = <<2, 3, 4, 5, 14>>

\* hand_values == list(range(hand_values[0], hand_values[0] + len(hand_values)))
IsStraight(hv) == hv = [i \in 1..Len(hv) |-> hv[1] + i - 1]

\* the keys of counts, in insertion order
RECURSIVE Keys(_)
Keys(hv) ==
    IF hv = <<>> THEN <<>>
    ELSE LET rest == Keys(SubSeq(hv, 1, Len(hv) - 1))
         IN  IF hv[Len(hv)] \in Range(rest) THEN rest
             ELSE Append(rest, hv[Len(hv)])

\* sorted(counts.values(), reverse=True)
CountValues(hv) ==
    LET keys == Keys(hv)
    IN  SortDesc([k \in 1..Len(keys) |->
                    Cardinality({i \in DOMAIN hv : hv[i] = keys[k]})])

Raised(e) == [err |-> e, name |-> "", strength |-> 0]

Returned(n, s) == [err |-> "none", name |-> n, strength |-> s]

\* (a variant that tests for one pair before two pair)
Classify_PairFirst(is_flush, is_straight, count_values) ==
    LET cv == count_values
    IN
    IF is_flush /\ is_straight THEN Returned("Poker", 9)
    ELSE IF cv[1] = 4 THEN Returned("Four of a Kind", 8)
    ELSE IF cv[1] = 3 /\ Len(cv) < 2 THEN Raised("IndexError")
    ELSE IF cv[1] = 3 /\ cv[2] = 2 THEN Returned("Full House", 7)
    ELSE IF is_flush THEN Returned("Flush", 6)
    ELSE IF is_straight THEN Returned("Straight", 5)
    ELSE IF cv[1] = 3 THEN Returned("Three of a Kind", 4)
    ELSE IF cv[1] = 2 THEN Returned("One Pair", 2)
    ELSE IF cv[1] = 2 /\ cv[2] = 2 THEN Returned("Two Pair", 3)
    ELSE Returned("High Card", 1)

\* the if-chain of lines 102-118; count_values[1] of a one-element list
\* raises IndexError
Classify(is_flush, is_straight, count_values) ==
    LET cv == count_values
    IN
    IF is_flush /\ is_straight THEN Returned("Poker", 9)
    ELSE IF cv[1] = 4 THEN Returned("Four of a Kind", 8)
    ELSE IF cv[1] = 3 /\ Len(cv) < 2 THEN Raised("IndexError")
    ELSE IF cv[1] = 3 /\ cv[2] = 2 THEN Returned("Full House", 7)
    ELSE IF is_flush THEN Returned("Flush", 6)
    ELSE IF is_straight THEN Returned("Straight", 5)
    ELSE IF cv[1] = 3 THEN Returned("Three of a Kind", 4)
    ELSE IF cv[1] = 2 /\ Len(cv) < 2 THEN Raised("IndexError")
    ELSE IF cv[1] = 2 /\ cv[2] = 2 THEN Returned("Two Pair", 3)
    ELSE IF cv[1] = 2 THEN Returned("One Pair", 2)
    ELSE Returned("High Card", 1)

evaluate_hands(hand) ==
    LET bad == FirstBad(hand)
        hand_values == HandValues(hand)
    IN  IF bad # 0 THEN Raised(CardError(hand[bad]))
        ELSE IF hand = <<>> THEN Raised("IndexError")
        ELSE Classify(IsFlush(hand), IsStraight(hand_values),
                      CountValues(hand_values))

---------------------------------------------------------------------------
(* announce_winner *)

\* the evaluations list after the loop of lines 142-144, or the first
\* exception evaluate_hands raises
EvaluateAll(hs) ==
    LET es == <<>> \o [i \in DOMAIN hs |-> evaluate_hands(hs[i])]
    IN  IF \E i \in DOMAIN es : es[i].err # "none"
        THEN [err |-> es[CHOOSE i \in DOMAIN es :
                            /\ es[i].err # "none"
                            /\ \A j \in 1..(i - 1) : es[j].err = "none"].err,
              list |-> <<>>]
        ELSE [err |-> "none",
              list |-> [i \in DOMAIN es |-> <<i, es[i].name, es[i].strength>>]]

\* (a variant that puts x before the entries of equal strength)
RECURSIVE InsertDesc_Unstable(_, _)
InsertDesc_Unstable(s, x) ==
    IF s = <<>> THEN <<x>>
    ELSE IF x[3] >= Head(s)[3] THEN <<x>> \o s
    ELSE <<Head(s)>> \o InsertDesc_Unstable(Tail(s), x)

\* one step of the stable descending sort: x goes after the entries whose
\* strength is greater or equal
RECURSIVE InsertDesc(_, _)
InsertDesc(s, x) ==
    IF s = <<>> THEN <<x>>
    ELSE IF x[3] > Head(s)[3] THEN <<x>> \o s
    ELSE <<Head(s)>> \o InsertDesc(Tail(s), x)

\* evaluations.sort(key=lambda x: x[2], reverse=True): list.sort is stable,
\* and reverse=True keeps the order of equal keys
RECURSIVE SortEvaluations(_)
SortEvaluations(evs) ==
    IF evs = <<>> THEN <<>>
    ELSE InsertDesc(SortEvaluations(SubSeq(evs, 1, Len(evs) - 1)),
                    evs[Len(evs)])

\* (a variant that reads the last entry)
TopStrength_Last(evs) == evs[Len(evs)][3]

\* top_strength = evaluations[0][2]
TopStrength(evs) == evs[1][3]

\* winners = [eval for eval in evaluations if eval[2] == top_strength]
Winners(evs) ==
    LET top_strength == TopStrength(evs)
    IN  SelectSeq(evs, LAMBDA e : e[3] = top_strength)

\* the last line printed: a tie between the winners, or the first entry
FinalLine(evs) ==
    LET winners == Winners(evs)
    IN  IF Len(winners) > 1
        THEN [kind |-> "tie",
              players |-> [i \in 1..Len(winners) |-> winners[i][1]],
              hand |-> winners[1][2]]
        ELSE [kind |-> "winner", players |-> <<evs[1][1]>>,
              hand |-> evs[1][2]]

NoAnnounce == [kind |-> "none", players |-> <<>>, hand |-> ""]

\* announce_winner(hands): [err, evaluations, announce]
announce_winner(hs) ==
    LET all == EvaluateAll(hs)
        sorted == SortEvaluations(all.list)
    IN  IF all.err # "none"
        THEN [err |-> all.err, evaluations |-> <<>>, announce |-> NoAnnounce]
        ELSE IF sorted = <<>>
        THEN [err |-> "IndexError", evaluations |-> sorted,
              announce |-> NoAnnounce]
        ELSE [err |-> "none", evaluations |-> sorted,
              announce |-> FinalLine(sorted)]

---------------------------------------------------------------------------
(* exchange_cards *)

Digits == <<"0", "1", "2", "3", "4", "5", "6", "7", "8", "9">>

\* int(text) on the texts the model uses: a digit, a digit after a zero, a
\* digit after a minus sign; any other text raises ValueError
IntTexts ==
    [t \in Range(Digits) |-> (CHOOSE i \in DOMAIN Digits : Digits[i] = t) - 1]
    @@ ("03" :> 3) @@ ("-1" :> -1)

\* (a variant that serves the lowest index first)
RECURSIVE SortedDesc_Asc(_)
SortedDesc_Asc(S) ==
    IF S = {} THEN <<>>
    ELSE LET m == CHOOSE x \in S : \A y \in S : x <= y
         IN  <<m>> \o SortedDesc_Asc(S \ {m})

\* sorted(S, reverse=True) on a set of integers
RECURSIVE SortedDesc(_)
SortedDesc(S) ==
    IF S = {} THEN <<>>
    ELSE LET m == CHOOSE x \in S : \A y \in S : y <= x
         IN  <<m>> \o SortedDesc(S \ {m})

\* indexes = sorted({int(i) for i in indexes_str.split()}, reverse=True)
Indexes(tokens) == SortedDesc({IntTexts[tokens[k]] : k \in DOMAIN tokens})

\* (a variant that puts the removed card back when the deck is empty)
ExchangeAt_Keep(h, d, notes, i) ==
    IF 1 <= i /\ i <= Len(h)
    THEN IF d # <<>>
         THEN [hand |-> InsertAt(RemoveAt(h, i - 1), i - 1, d[Len(d)]),
               deck |-> PopLast(d),
               reports |-> Append(notes, <<"exchanged", i>>)]
         ELSE [hand |-> h, deck |-> d,
               reports |-> Append(notes, <<"deck empty", i>>)]
    ELSE [hand |-> h, deck |-> d,
          reports |-> Append(notes, <<"ignored", i>>)]

\* (a variant that reads the deck's last card and leaves it on the deck)
ExchangeAt_Peek(h, d, notes, i) ==
    IF 1 <= i /\ i <= Len(h)
    THEN IF d # <<>>
         THEN [hand |-> InsertAt(RemoveAt(h, i - 1), i - 1, d[Len(d)]),
               deck |-> d,
               reports |-> Append(notes, <<"exchanged", i>>)]
         ELSE [hand |-> RemoveAt(h, i - 1), deck |-> d,
               reports |-> Append(notes, <<"deck empty", i>>)]
    ELSE [hand |-> h, deck |-> d,
          reports |-> Append(notes, <<"ignored", i>>)]

\* the body of the loop of lines 186-196 for index i
ExchangeAt(h, d, notes, i) ==
    IF 1 <= i /\ i <= Len(h)
    THEN IF d # <<>>
         THEN [hand |-> InsertAt(RemoveAt(h, i - 1), i - 1, d[Len(d)]),
               deck |-> PopLast(d),
               reports |-> Append(notes, <<"exchanged", i>>)]
         ELSE [hand |-> RemoveAt(h, i - 1), deck |-> d,
               reports |-> Append(notes, <<"deck empty", i>>)]
    ELSE [hand |-> h, deck |-> d,
          reports |-> Append(notes, <<"ignored", i>>)]

RECURSIVE ExchangeLoop(_, _, _, _)
ExchangeLoop(h, d, notes, indexes) ==
    IF indexes = <<>> THEN [hand |-> h, deck |-> d, reports |-> notes]
    ELSE LET r == ExchangeAt(h, d, notes, Head(indexes))
         IN  ExchangeLoop(r.hand, r.deck, r.reports, Tail(indexes))

\* exchange_cards(hand, deck) when the prompt is answered with tokens:
\* [hand, deck, reports]
exchange_cards(h, d, tokens) ==
    IF tokens = <<>>
    THEN [hand |-> h, deck |-> d, reports |-> << <<"no exchange", 0>> >>]
    ELSE IF \E k \in DOMAIN tokens : tokens[k] \notin DOMAIN IntTexts
    THEN [hand |-> h, deck |-> d, reports |-> << <<"no exchange", 0>> >>]
    ELSE ExchangeLoop(h, d, <<>>, Indexes(tokens))

---------------------------------------------------------------------------
(* Evaluation of one hand: the caller passes a 5-card list to               *)
(* evaluate_hands                                                           *)

\* cards_per_players=5, the size of a hand
HandSize == 5

\* the card texts hands are drawn from: every suit of the ranks
\* 2 .. LowValues+1 and of the ace, and two texts create_deck never makes:
\* one with an unknown rank token, one with an unknown suit token
EvalCards ==
    SelectSeq(create_deck,
              LAMBDA c : value_order[c[1]] <= LowValues + 1 \/ c[1] = "As")
    \o << <<"1", "Karo">>, <<"2", "Serce">> >>

Rotate(s, r) == [i \in 1..Len(s) |-> s[((i - 1 + r) % Len(s)) + 1]]

NoArgs == [num_players |-> 0, cards_per_players |-> 0]

InitEval ==
    /\ deck = <<>>
    /\ indexes_str = <<>>
    /\ result = Raised("none")
    /\ evaluations = <<>>
    /\ announce = NoAnnounce
    /\ reports = <<>>
    /\ err = "none"
    /\ args = NoArgs
    /\ deck0 = <<>>
    /\ hands0 = <<>>
    /\ pc = "evaluate"
    /\ \E a \in 1..Len(EvalCards) :
       \E b \in (a + 1)..Len(EvalCards) :
       \E c \in (b + 1)..Len(EvalCards) :
       \E d \in (c + 1)..Len(EvalCards) :
       \E e \in (d + 1)..Len(EvalCards) :
       \E r \in {0, 2} :
          hands = << Rotate(<<EvalCards[a], EvalCards[b], EvalCards[c],
                              EvalCards[d], EvalCards[e]>>, r) >>

\* hand_name, strength = evaluate_hands(hand)
Evaluate ==
    /\ pc = "evaluate"
    /\ result' = evaluate_hands(hands[1])
    /\ err' = result'.err
    /\ pc' = "done"
    /\ UNCHANGED <<deck, hands, indexes_str, evaluations, announce, reports,
                   args, deck0, hands0>>

NextEval == Evaluate

SpecEval == InitEval /\ [][NextEval]_vars

---------------------------------------------------------------------------
(* Claims about evaluate_hands, checked under SpecEval *)

ValidCard(card) ==
    /\ Len(card) = 2
    /\ card[1] \in Range(values)
    /\ card[2] \in Range(colors)

\* the rank value of a valid card: 2 for the first rank symbol, 14 for the ace
RankOf(card) == (CHOOSE i \in DOMAIN values : values[i] = card[1]) + 1

\* the rank values of a hand's cards, in hand order
RankList(hand) == <<>> \o [i \in DOMAIN hand |-> RankOf(hand[i])]

RanksOf(hand) == Range(RankList(hand))

SetMax(S) == CHOOSE x \in S : \A y \in S : y <= x

SetMin(S) == CHOOSE x \in S : \A y \in S : x <= y

FlushRule(hand) == \A i, j \in DOMAIN hand : hand[i][2] = hand[j][2]

StraightRule(hand) ==
    /\ SetMax(RanksOf(hand)) - SetMin(RanksOf(hand)) = 4
    /\ Cardinality(RanksOf(hand)) = 5

\* the strength of the first rule that matches, in the precedence order
FirstMatch(hand) ==
    LET rk == RankList(hand)
        R == Range(rk)
        mult == [v \in R |-> Cardinality({i \in DOMAIN rk : rk[i] = v})]
        flush == FlushRule(hand)
        straight == SetMax(R) - SetMin(R) = 4 /\ Cardinality(R) = 5
    IN  IF flush /\ straight THEN 9
        ELSE IF \E v \in R : mult[v] = 4 THEN 8
        ELSE IF \E v, w \in R : mult[v] = 3 /\ mult[w] = 2 THEN 7
        ELSE IF flush THEN 6
        ELSE IF straight THEN 5
        ELSE IF \E v \in R : mult[v] = 3 THEN 4
        ELSE IF \E v, w \in R : v # w /\ mult[v] = 2 /\ mult[w] = 2 THEN 3
        ELSE IF \E v \in R : mult[v] = 2 THEN 2
        ELSE 1

\* the one category of each strength 1..9 ("Poker" is the straight flush)
CategoryOf ==
    <<"High Card", "One Pair", "Two Pair", "Three of a Kind", "Straight",
      "Flush", "Full House", "Four of a Kind", "Poker">>

DistinctValidHand(hand) ==
    /\ Len(hand) = HandSize
    /\ \A i \in DOMAIN hand : ValidCard(hand[i])
    /\ Cardinality(Range(hand)) = HandSize

\* C2: for every 5-card hand of distinct valid cards, evaluate returns the
\* category and strength of the first matching rule in the precedence order
\* straight flush 9, four of a kind 8, full house 7, flush 6, straight 5,
\* three of a kind 4, two pair 3, one pair 2, high card 1; the strength is in
\* 1..9 and each strength has exactly one category.
C2_FirstMatchWins ==
    (pc = "done" /\ DistinctValidHand(hands[1])) =>
        /\ result.err = "none"
        /\ result.strength \in 1..9
        /\ result.strength = FirstMatch(hands[1])
        /\ result.name = CategoryOf[result.strength]

\* a straight flush given out of order has been evaluated
C2_Witness ==
    /\ pc = "done"
    /\ DistinctValidHand(hands[1])
    /\ FlushRule(hands[1]) /\ StraightRule(hands[1])
    /\ RankOf(hands[1][1]) > RankOf(hands[1][HandSize])
    /\ result.strength = 9

AceLow(hand) ==
    /\ Len(hand) = HandSize
    /\ \A i \in DOMAIN hand : ValidCard(hand[i])
    /\ RanksOf(hand) = {2, 3, 4, 5, 14}

\* C3: a hand whose rank values are {2,3,4,5,14} is never classified as
\* Straight or Straight Flush: it is ("Flush", 6) when all five cards share a
\* suit and ("High Card", 1) when they do not.
C3_AceLowIsNoStraight ==
    (pc = "done" /\ AceLow(hands[1])) =>
        result = IF FlushRule(hands[1]) THEN Returned("Flush", 6)
                 ELSE Returned("High Card", 1)

\* the ace-low hand of one suit has been evaluated
C3_Witness ==
    /\ pc = "done"
    /\ AceLow(hands[1])
    /\ FlushRule(hands[1])
    /\ result.strength = 6

\* C8: evaluate fails for any hand that contains a card whose rank token is
\* not one of the 13 rank symbols or whose suit token is not one of the 4
\* suit symbols; it never returns a category for such a hand.
C8_InvalidCardFails ==
    (pc = "done" /\ \E i \in DOMAIN hands[1] : ~ValidCard(hands[1][i])) =>
        result.err # "none"

---------------------------------------------------------------------------
(* Ranking: the caller passes a list of 0 .. MaxPlayers hands to            *)
(* announce_winner                                                          *)

\* one hand of each category, weakest first
SampleHands ==
    << << <<"2", "Karo">>, <<"3", "Kier">>, <<"4", "Pik">>,
          <<"5", "Trefl">>, <<"As", "Karo">> >>,
       << <<"9", "Karo">>, <<"9", "Kier">>, <<"4", "Pik">>,
          <<"Jack", "Trefl">>, <<"King", "Karo">> >>,
       << <<"8", "Karo">>, <<"8", "Kier">>, <<"Queen", "Pik">>,
          <<"Queen", "Trefl">>, <<"3", "Karo">> >>,
       << <<"7", "Karo">>, <<"7", "Kier">>, <<"7", "Pik">>,
          <<"2", "Trefl">>, <<"10", "Karo">> >>,
       << <<"9", "Pik">>, <<"5", "Kier">>, <<"7", "Trefl">>,
          <<"6", "Trefl">>, <<"8", "Pik">> >>,
       << <<"2", "Kier">>, <<"King", "Kier">>, <<"6", "Kier">>,
          <<"8", "Kier">>, <<"10", "Kier">> >>,
       << <<"3", "Pik">>, <<"3", "Trefl">>, <<"3", "Kier">>,
          <<"7", "Karo">>, <<"7", "Pik">> >>,
       << <<"2", "Kier">>, <<"2", "Pik">>, <<"2", "Trefl">>,
          <<"2", "Karo">>, <<"5", "Karo">> >>,
       << <<"10", "Pik">>, <<"Jack", "Pik">>, <<"Queen", "Pik">>,
          <<"King", "Pik">>, <<"As", "Pik">> >> >>

InitRank ==
    /\ deck = <<>>
    /\ indexes_str = <<>>
    /\ result = Raised("none")
    /\ evaluations = <<>>
    /\ announce = NoAnnounce
    /\ reports = <<>>
    /\ err = "none"
    /\ args = NoArgs
    /\ deck0 = <<>>
    /\ hands0 = <<>>
    /\ pc = "announce"
    /\ \E n \in 0..MaxPlayers :
       \E pick \in [1..n -> DOMAIN SampleHands] :
          hands = [i \in 1..n |-> SampleHands[pick[i]]]

\* announce_winner(hands)
Announce ==
    /\ pc = "announce"
    /\ LET r == announce_winner(hands)
       IN  /\ evaluations' = r.evaluations
           /\ announce' = r.announce
           /\ err' = r.err
    /\ pc' = "done"
    /\ UNCHANGED <<deck, hands, indexes_str, result, reports, args, deck0,
                   hands0>>

NextRank == Announce

SpecRank == InitRank /\ [][NextRank]_vars

---------------------------------------------------------------------------
(* Claims about announce_winner, checked under SpecRank *)

\* the strength of player p's hand
StrengthOf(p) == FirstMatch(hands[p])

Players == 1..Len(hands)

\* C4: the ranked result is ordered by strength from highest to lowest,
\* contains each player exactly once, and any two players with equal
\* strength appear in their input order (player number ascending).
C4_RankedStable ==
    (pc = "done" /\ err = "none") =>
        /\ Len(evaluations) = Len(hands)
        /\ {evaluations[i][1] : i \in DOMAIN evaluations} = Players
        /\ \A i \in DOMAIN evaluations :
              evaluations[i][3] = StrengthOf(evaluations[i][1])
        /\ \A i, j \in DOMAIN evaluations :
              i < j =>
                 /\ evaluations[i][3] >= evaluations[j][3]
                 /\ evaluations[i][3] = evaluations[j][3] =>
                       evaluations[i][1] < evaluations[j][1]

\* strengths [5,9,9,2] for players 1..4 have been ranked 2,3,1,4
C4_Witness ==
    /\ pc = "done"
    /\ Len(hands) = 4
    /\ [p \in 1..4 |-> StrengthOf(p)] = <<5, 9, 9, 2>>
    /\ [i \in 1..4 |-> evaluations[i][1]] = <<2, 3, 1, 4>>

\* the strengths of the players' hands, in player order
Strengths == <<>> \o [p \in Players |-> StrengthOf(p)]

\* C5: for a non-empty list of hands the winners are exactly the players
\* whose strength is the maximum of the round: never none, a tie is announced
\* iff two or more players share the maximum, a single winner iff exactly
\* one holds it, and no player of lower strength is listed.
C5_WinnersAreTheMaximum ==
    (pc = "done" /\ Len(hands) >= 1) =>
        LET st == Strengths
            m == SetMax(Range(st))
            W == {p \in Players : st[p] = m}
        IN  /\ err = "none"
            /\ W # {}
            /\ Range(announce.players) = W
            /\ Len(announce.players) = Cardinality(W)
            /\ announce.kind = "tie" <=> Cardinality(W) >= 2
            /\ announce.kind = "winner" <=> Cardinality(W) = 1
            /\ announce.hand = CategoryOf[m]

\* strengths [7,7,3]: a tie between players 1 and 2 has been announced
C5_Witness ==
    /\ pc = "done"
    /\ Len(hands) = 3
    /\ [p \in 1..3 |-> StrengthOf(p)] = <<7, 7, 3>>
    /\ announce = [kind |-> "tie", players |-> <<1, 2>>,
                   hand |-> "Full House"]

---------------------------------------------------------------------------
(* Dealing: the caller passes a fresh deck to deal_cards                    *)

InitDeal ==
    /\ deck = create_deck
    /\ hands = <<>>
    /\ indexes_str = <<>>
    /\ result = Raised("none")
    /\ evaluations = <<>>
    /\ announce = NoAnnounce
    /\ reports = <<>>
    /\ err = "none"
    /\ args = NoArgs
    /\ deck0 = <<>>
    /\ hands0 = <<>>
    /\ pc = "deal"

\* hands = deal_cards(deck, num_players, cards_per_players): the deck list is
\* changed in place; the caller's hands are assigned only when the call
\* returns
Deal ==
    /\ pc = "deal"
    /\ \E n \in 0..MaxDealPlayers :
       \E k \in 0..MaxDealCards :
       \E seed \in ShuffleSeeds(Len(deck)) :
          LET r == deal_cards(Shuffle(deck, seed), n, k)
          IN  /\ args' = [num_players |-> n, cards_per_players |-> k]
              /\ deck' = r.deck
              /\ hands' = IF r.err = "none" THEN r.hands ELSE hands
              /\ err' = r.err
    /\ deck0' = deck
    /\ hands0' = hands
    /\ pc' = "done"
    /\ UNCHANGED <<indexes_str, result, evaluations, announce, reports>>

NextDeal == Deal

SpecDeal == InitDeal /\ [][NextDeal]_vars

---------------------------------------------------------------------------
(* Claims about deal_cards, checked under SpecDeal *)

Requested == args.num_players * args.cards_per_players

\* C1: when deal is called with numPlayers * cardsPerPlayer greater than the
\* number of cards in the deck, the operation fails and the deck is exactly
\* as it was before the call (same cards, same order): no card has been
\* removed and no partial hand has been dealt.
C1_FailedDealLeavesDeck ==
    (pc = "done" /\ Requested > Len(deck0)) =>
        /\ err # "none"
        /\ deck = deck0
        /\ hands = hands0

NoRepeats(s) == Cardinality(Range(s)) = Len(s)

\* C6: for deal on a fresh 52-card deck with n players and 5 cards per
\* player (5n <= 52): afterwards the deck holds exactly 52 - 5n cards, there
\* are n hands of exactly 5 distinct cards each, no card appears in more than
\* one hand, and no dealt card is still in the deck (hands and remaining deck
\* partition the original 52 cards).
C6_DealPartitionsDeck ==
    (/\ pc = "done"
     /\ deck0 = create_deck
     /\ args.cards_per_players = 5
     /\ 5 * args.num_players <= 52) =>
        /\ err = "none"
        /\ Cardinality(Range(deck0)) = 52
        /\ Len(deck) = 52 - 5 * args.num_players
        /\ NoRepeats(deck)
        /\ Len(hands) = args.num_players
        /\ \A p \in DOMAIN hands : Len(hands[p]) = 5 /\ NoRepeats(hands[p])
        /\ \A p, q \in DOMAIN hands :
              p # q => Range(hands[p]) \cap Range(hands[q]) = {}
        /\ \A p \in DOMAIN hands : Range(hands[p]) \cap Range(deck) = {}
        /\ UNION {Range(hands[p]) : p \in DOMAIN hands} \cup Range(deck)
              = Range(deck0)

\* four hands have been dealt from a fresh deck, 32 cards remain
C6_Witness ==
    /\ pc = "done"
    /\ deck0 = create_deck
    /\ args = [num_players |-> 4, cards_per_players |-> 5]
    /\ Len(hands) = 4
    /\ Len(deck) = 32

---------------------------------------------------------------------------
(* Exchange: the caller passes a 5-card hand and a deck of 0 .. MaxDeck     *)
(* cards to exchange_cards                                                  *)

\* the texts the prompt's answer is made of
PromptTokens == {Digits[i + 1] : i \in 0..MaxIndex} \cup {"03", "-1", "x"}

Answers == UNION {[1..n -> PromptTokens] : n \in 0..MaxTokens}

InitExchange ==
    /\ hands = << SubSeq(create_deck, 1, HandSize) >>
    /\ \E n \in 0..MaxDeck : deck = SubSeq(create_deck, HandSize + 1, HandSize + n)
    /\ indexes_str \in Answers
    /\ result = Raised("none")
    /\ evaluations = <<>>
    /\ announce = NoAnnounce
    /\ reports = <<>>
    /\ err = "none"
    /\ args = NoArgs
    /\ deck0 = <<>>
    /\ hands0 = <<>>
    /\ pc = "exchange"

\* hands[human_index] = exchange_cards(hands[human_index], deck)
Exchange ==
    /\ pc = "exchange"
    /\ LET r == exchange_cards(hands[1], deck, indexes_str)
       IN  /\ hands' = [hands EXCEPT ![1] = r.hand]
           /\ deck' = r.deck
           /\ reports' = r.reports
    /\ deck0' = deck
    /\ hands0' = hands
    /\ pc' = "done"
    /\ UNCHANGED <<indexes_str, result, evaluations, announce, err, args>>

NextExchange == Exchange

SpecExchange == InitExchange /\ [][NextExchange]_vars

---------------------------------------------------------------------------
(* Claims about exchange_cards, checked under SpecExchange *)

\* the answer is a list of numbers
Numeric == indexes_str # <<>> /\ \A k \in DOMAIN indexes_str :
              indexes_str[k] \in DOMAIN IntTexts

\* the positions asked for, each once
Asked == {IntTexts[indexes_str[k]] : k \in DOMAIN indexes_str}

\* the in-range positions asked for
InRange == Asked \cap (1..Len(hands0[1]))

\* how many in-range positions above p are asked for
Above(p) == Cardinality({q \in InRange : q > p})

\* C7: for exchange on a 5-card hand with a set S of in-range positions
\* (duplicates counted once) and a deck of at least |S| cards: afterwards the
\* hand still has 5 cards, every position not in S holds its original card,
\* every position in S holds a card from the tail of the deck, positions
\* served in descending order (the highest gets the deck's last card), and
\* the deck is shorter by exactly |S|.
C7_ExchangeReplacesFromTail ==
    (/\ pc = "done"
     /\ Numeric
     /\ Len(hands0[1]) = HandSize
     /\ Len(deck0) >= Cardinality(InRange)) =>
        /\ Len(hands[1]) = HandSize
        /\ \A p \in (1..HandSize) \ InRange : hands[1][p] = hands0[1][p]
        /\ \A p \in InRange : hands[1][p] = deck0[Len(deck0) - Above(p)]
        /\ deck = SubSeq(deck0, 1, Len(deck0) - Cardinality(InRange))

\* positions 1 and 3 have been exchanged: 3 got the deck's last card, 1 the
\* one before it, the deck is shorter by 2
C7_Witness ==
    /\ pc = "done"
    /\ indexes_str = <<"1", "3">>
    /\ Len(deck0) = 3
    /\ Len(deck) = 1
    /\ hands[1][3] = deck0[3]
    /\ hands[1][1] = deck0[2]
    /\ hands[1][2] = hands0[1][2]

\* the in-range positions that find the deck empty: the lowest ones
Unserved == {p \in InRange : Above(p) >= Len(deck0)}

\* the k-th smallest element of a set of integers
Nth(S, k) == CHOOSE p \in S : Cardinality({q \in S : q < p}) = k - 1

\* C10: when exchange reaches an in-range position while the deck is empty,
\* the operation does not fail: the card at that position is removed, nothing
\* is inserted, the hand becomes one card shorter for each such position, the
\* deck stays empty, and the remaining positions are still processed; an
\* out-of-range position leaves both hand and deck unchanged.
C10_EmptyDeckShortensHand ==
    (pc = "done" /\ Numeric /\ Len(hands0[1]) = HandSize) =>
        LET kept == (1..HandSize) \ Unserved
        IN  /\ err = "none"
            /\ Len(reports) = Cardinality(Asked)
            /\ Unserved # {} => deck = <<>>
            /\ Len(hands[1]) = HandSize - Cardinality(Unserved)
            /\ \A k \in 1..Len(hands[1]) :
                  hands[1][k] =
                     IF Nth(kept, k) \in InRange
                     THEN deck0[Len(deck0) - Above(Nth(kept, k))]
                     ELSE hands0[1][Nth(kept, k)]
            /\ InRange = {} => hands = hands0 /\ deck = deck0

\* positions 1, 3 and 6 were asked for with one card in the deck: 6 was
\* ignored, 3 got the card, 1 was removed and the hand has four cards
C10_Witness ==
    /\ pc = "done"
    /\ indexes_str = <<"1", "6", "3">>
    /\ Len(deck0) = 1
    /\ deck = <<>>
    /\ hands[1]
         = <<hands0[1][2], deck0[1], hands0[1][4], hands0[1][5]>>

---------------------------------------------------------------------------
(* player_vs_computer: one round, from one prompt to the next *)

\* the answer that names every position of the hand
AllPositions == [i \in 1..HandSize |-> Digits[i + 1]]

RoundAnswers ==
    UNION {[1..n -> PromptTokens] : n \in 0..MaxRoundTokens}
    \cup {AllPositions}

InitRound ==
    /\ deck = <<>>
    /\ hands = <<>>
    /\ indexes_str = <<>>
    /\ result = Raised("none")
    /\ evaluations = <<>>
    /\ announce = NoAnnounce
    /\ reports = <<>>
    /\ err = "none"
    /\ args = NoArgs
    /\ deck0 = <<>>
    /\ hands0 = <<>>
    /\ pc = "bots"

\* lines 208-226 up to the exchange prompt: the answer to "How many computer
\* opponents" is asked again unless it is a number in 1..3; then the deck is
\* created, shuffled and dealt to bots + 1 players
RoundBots ==
    /\ pc = "bots"
    /\ \E tok \in PromptTokens :
          IF tok \in DOMAIN IntTexts /\ IntTexts[tok] \in 1..3
          THEN \E seed \in ShuffleSeeds(Len(create_deck)) :
                  LET r == deal_cards(Shuffle(create_deck, seed),
                                      IntTexts[tok] + 1, HandSize)
                  IN  /\ args' = [num_players |-> IntTexts[tok] + 1,
                                  cards_per_players |-> HandSize]
                      /\ deck' = r.deck
                      /\ hands' = r.hands
                      /\ err' = r.err
                      /\ deck0' = create_deck
                      /\ pc' = IF r.err = "none" THEN "exchange" ELSE "done"
                      /\ UNCHANGED <<hands0, indexes_str, result, evaluations,
                                     announce, reports>>
          ELSE UNCHANGED vars

\* lines 226-232 from the exchange prompt's answer on: the human's hand is
\* exchanged, then announce_winner evaluates the hands
RoundExchange ==
    /\ pc = "exchange"
    /\ \E tokens \in RoundAnswers :
          LET x == exchange_cards(hands[1], deck, tokens)
              hs == [hands EXCEPT ![1] = x.hand]
              r == announce_winner(hs)
          IN  /\ indexes_str' = tokens
              /\ hands' = hs
              /\ deck' = x.deck
              /\ reports' = x.reports
              /\ evaluations' = r.evaluations
              /\ announce' = r.announce
              /\ err' = r.err
    /\ deck0' = deck
    /\ hands0' = hands
    /\ pc' = "done"
    /\ UNCHANGED <<result, args>>

NextRound == RoundBots \/ RoundExchange

SpecRound == InitRound /\ [][NextRound]_vars

---------------------------------------------------------------------------
(* Claims about a round, checked under SpecRound *)

RECURSIVE Flatten(_)
Flatten(ss) == IF ss = <<>> THEN <<>> ELSE Head(ss) \o Flatten(Tail(ss))

\* C9: in every round (1 to 3 computer opponents, any exchange answer,
\* including out-of-range and repeated positions), when the hands are
\* evaluated every hand has exactly 5 cards and no card occurs in two places
\* (in two hands, twice in one hand, or in a hand and in the deck); the deck
\* is never empty when the exchange draws a replacement.
C9_RoundHandsAreWhole ==
    pc = "done" =>
        /\ err = "none"
        /\ Len(hands) \in 2..4
        /\ Len(evaluations) = Len(hands)
        /\ \A p \in DOMAIN hands : Len(hands[p]) = 5
        /\ NoRepeats(Flatten(hands) \o deck)
        /\ \A k \in DOMAIN reports : reports[k][1] # "deck empty"

\* a round against three opponents in which the human exchanged all five
\* cards has been evaluated
C9_Witness ==
    /\ pc = "done"
    /\ Len(hands) = 4
    /\ indexes_str = AllPositions
    /\ Len(deck) = 27
    /\ \A p \in 1..5 : hands[1][p] # hands0[1][p]

===========================================================================
